---- MODULE Spec2Model ----
(***************************************************************************)
(* Model of the Windows job supervisor                                     *)
(* (src/jobsupervisor/windows_job_supervisor.go): the service lifecycle    *)
(* controller (Start, Stop, Unmonitor, Status, AddJob, RemoveAllJobs), the *)
(* per-process event-log tailers spawned by monitorJob, and the dispatch   *)
(* loop MonitorJobFailures.                                                *)
(*                                                                         *)
(* The service manager (powershell queries through cmdRunner), the file    *)
(* system and the failure handler are the supervisor's collaborators; they *)
(* are modelled as mocks whose answers are chosen nondeterministically.    *)
(* The event log is a reliable append-only file: a read answers nil or     *)
(* io.EOF, so the tailer's "default" branch (any other read error) is not  *)
(* reachable here.                                                         *)
(***************************************************************************)
EXTENDS Integers, Sequences, FiniteSets, TLC

VARIABLES
  marker,    \* TRUE iff the file stoppedFilePath() exists
  monitor,   \* state of s.monitor: "Running", "Stopped" or "Exited"
  lastOp,    \* the last lifecycle call that returned, with what it returned
  raj,       \* the RemoveAllJobs call in progress: its position and its i
  counter,   \* the manager mock's record of the count polls of that call
  services,  \* names of the services the wrapper's install verb registered
  files,     \* per process: its event log file, or NoFile
  wrapper,   \* per process: what the service wrapper has written and has left
  tailers,   \* the tailer goroutines, in the order monitorJob spawned them
  msgCh,     \* s.msgCh: the events sent and not yet received
  handled,   \* the handler mock's record: the alerts it was invoked with
  trail,     \* history, per tailer: how the line it is assembling came about
  configs,   \* per process: the service descriptor file AddJob saved, or none
  closed,    \* TRUE iff s.msgCh has been closed
  loop       \* MonitorJobFailures: where it is; the first call the handler failed

lifecycleVars == <<marker, monitor, lastOp, raj, counter>>

tailVars == <<services, files, wrapper, tailers, msgCh, handled, trail,
              configs, closed, loop>>

vars == <<marker, monitor, lastOp, raj, counter,
          services, files, wrapper, tailers, msgCh, handled, trail,
          configs, closed, loop>>

(***************************************************************************)
(* Bounds of the model.                                                    *)
(***************************************************************************)
MaxServices == 3     \* most services the manager reports on
MaxCount == 3        \* largest count the count query answers

MaxRecords == 2      \* most records the wrappers append, all logs together
MaxTailers == 2      \* most tailer goroutines monitorJob has spawned
MaxBurst == 9        \* most records of a burst of failures of one process

\* const MaxRetries = 100 in RemoveAllJobs
MaxRetries == 100

\* make(chan *windowsServiceEvent, 8)
ChanCap == 8

(***************************************************************************)
(* Text helpers.  A command's stdout is a sequence of tokens: a token is   *)
(* one word of output (a service state name, a number) or the line break   *)
(* "\r\n" that powershell puts after each output object.                   *)
(***************************************************************************)
CRLF == "\r\n"

IsSpace(tok) == tok \in {CRLF, " ", "\n"}

RECURSIVE TrimLeft(_)
TrimLeft(s) ==
  IF s # <<>> /\ IsSpace(Head(s)) THEN TrimLeft(Tail(s)) ELSE s

RECURSIVE TrimRight(_)
TrimRight(s) ==
  IF s # <<>> /\ IsSpace(s[Len(s)])
    THEN TrimRight(SubSeq(s, 1, Len(s) - 1))
    ELSE s

\* strings.TrimSpace
TrimSpace(s) == TrimRight(TrimLeft(s))

\* strings.Split(s, sep) for a one-token separator: the pieces between the
\* separators, an empty piece included.
RECURSIVE Split(_, _)
Split(s, sep) ==
  IF \A i \in 1..Len(s) : s[i] # sep
    THEN <<s>>
    ELSE LET k == CHOOSE i \in 1..Len(s) :
                    s[i] = sep /\ \A j \in 1..(i - 1) : s[j] # sep
         IN  <<SubSeq(s, 1, k - 1)>> \o Split(SubSeq(s, k + 1, Len(s)), sep)

\* What powershell prints for a list of objects: each followed by a line break.
RECURSIVE RenderLines(_)
RenderLines(items) ==
  IF items = <<>> THEN <<>>
  ELSE <<Head(items), CRLF>> \o RenderLines(Tail(items))

\* What powershell prints for a small number.
Itoa(n) == <<"0", "1", "2", "3", "4", "5", "6", "7", "8", "9">>[n + 1]

(***************************************************************************)
(* The manager mock's answers.                                             *)
(***************************************************************************)
ServiceStates == {"Running", "Stopped", "Start Pending"}

StateLists == UNION {[1..n -> ServiceStates] : n \in 0..MaxServices}

\* An answer to getStatusScript: the query fails, or prints the states.
StatusReplies ==
  {[err |-> TRUE, states |-> <<>>]} \cup
  {[err |-> FALSE, states |-> l] : l \in StateLists}

NoReply == [err |-> FALSE, states |-> <<>>]

NoCall == [op |-> "none", err |-> "none"]

NoOp == [op |-> "none", err |-> "none", status |-> "", queried |-> FALSE,
         reply |-> NoReply, prev |-> NoCall]

\* The record of a call that returned err; prev is the call before it.
Returned(op, err) ==
  [op |-> op, err |-> err, status |-> "", queried |-> FALSE, reply |-> NoReply,
   prev |-> [op |-> lastOp.op, err |-> lastOp.err]]

(***************************************************************************)
(* Synchronization monitor (github.com/cloudfoundry/bosh-utils/state),     *)
(* whose code is not part of the sources: modelled from the specification. *)
(***************************************************************************)
MonitorStates == {"Running", "Stopped", "Exited"}

\* Exited is terminal: Start and Stop toggle only between Running and Stopped.
MonitorStart(m) == IF m = "Exited" THEN "Exited" ELSE "Running"

MonitorStop(m) == IF m = "Exited" THEN "Exited" ELSE "Stopped"

MonitorExit(m) == "Exited"

\* p.Wait() blocks while the monitor is Stopped; the handles are released
\* on Exit.
WaitReturns(m) == m # "Stopped"

(***************************************************************************)
(* Start, Stop, Unmonitor, Status.  Every manager query and file-system    *)
(* call either succeeds or fails; the mock decides which.                  *)
(***************************************************************************)
Idle == raj.pc # "poll"

\* History of a tailer's line: parts is the number of reads that brought
\* bytes of it (2 stands for two or more); pause is "stopped" once Stop()
\* was called while the tailer held buffered bytes of it, and "resumed"
\* once Start() was then called while it still held them.
NoTrail == [parts |-> 0, pause |-> "no"]

TrailAtStop ==
  [t \in DOMAIN trail |->
     IF tailers[t].buf # <<>> THEN [trail[t] EXCEPT !.pause = "stopped"]
     ELSE trail[t]]

TrailAtStart ==
  [t \in DOMAIN trail |->
     IF trail[t].pause = "stopped"
       THEN [trail[t] EXCEPT
               !.pause = IF tailers[t].buf # <<>> THEN "resumed" ELSE "no"]
       ELSE trail[t]]

\* Start() that returns nil without removing the stopped file.
StartResultKeepsMarker(m, queryFails, removeFails) ==
  IF queryFails THEN [err |-> "Starting windows job process", marker |-> m]
  ELSE IF removeFails THEN [err |-> "Removing stopped file", marker |-> m]
  ELSE [err |-> "none", marker |-> m]

\* Start(): what it returns and what it leaves of the stopped marker.
StartResult(m, queryFails, removeFails) ==
  IF queryFails THEN [err |-> "Starting windows job process", marker |-> m]
  ELSE IF removeFails THEN [err |-> "Removing stopped file", marker |-> m]
  ELSE [err |-> "none", marker |-> FALSE]

\* Start() that resumes the monitor last, only when nothing has failed.
StartCallMonitorLast(queryFails, removeFails) ==
  /\ Idle
  /\ LET r == StartResult(marker, queryFails, removeFails)
     IN  /\ marker' = r.marker
         /\ lastOp' = Returned("Start", r.err)
         /\ monitor' = IF r.err = "none" THEN MonitorStart(monitor) ELSE monitor
  /\ trail' = TrailAtStart
  /\ UNCHANGED <<raj, counter>>
  /\ UNCHANGED <<services, files, wrapper, tailers, msgCh, handled>>
  /\ UNCHANGED <<configs, closed, loop>>

StartCall(queryFails, removeFails) ==
  /\ Idle
  /\ monitor' = MonitorStart(monitor)
  /\ LET r == StartResult(marker, queryFails, removeFails)
     IN  /\ marker' = r.marker
         /\ lastOp' = Returned("Start", r.err)
  /\ trail' = TrailAtStart
  /\ UNCHANGED <<raj, counter>>
  /\ UNCHANGED <<services, files, wrapper, tailers, msgCh, handled>>
  /\ UNCHANGED <<configs, closed, loop>>

Start == \E queryFails, removeFails \in BOOLEAN : StartCall(queryFails, removeFails)

\* Stop() that writes the stopped file before it runs stopJobScript.
StopResultMarkerFirst(m, queryFails, writeFails) ==
  IF writeFails THEN [err |-> "Creating stopped file", marker |-> m]
  ELSE IF queryFails THEN [err |-> "Stopping services", marker |-> TRUE]
  ELSE [err |-> "none", marker |-> TRUE]

\* Stop(): what it returns and what it leaves of the stopped marker.
StopResult(m, queryFails, writeFails) ==
  IF queryFails THEN [err |-> "Stopping services", marker |-> m]
  ELSE IF writeFails THEN [err |-> "Creating stopped file", marker |-> m]
  ELSE [err |-> "none", marker |-> TRUE]

\* Stop() that also has the tailers reopen their logs: the read position
\* goes back to the start of the file.
StopCallReopens(queryFails, writeFails) ==
  /\ Idle
  /\ monitor' = MonitorStop(monitor)
  /\ LET r == StopResult(marker, queryFails, writeFails)
     IN  /\ marker' = r.marker
         /\ lastOp' = Returned("Stop", r.err)
  /\ trail' = TrailAtStop
  /\ tailers' = [t \in DOMAIN tailers |-> [tailers[t] EXCEPT !.off = 0]]
  /\ UNCHANGED <<raj, counter>>
  /\ UNCHANGED <<services, files, wrapper, msgCh, handled>>
  /\ UNCHANGED <<configs, closed, loop>>

StopCall(queryFails, writeFails) ==
  /\ Idle
  /\ monitor' = MonitorStop(monitor)
  /\ LET r == StopResult(marker, queryFails, writeFails)
     IN  /\ marker' = r.marker
         /\ lastOp' = Returned("Stop", r.err)
  /\ trail' = TrailAtStop
  /\ UNCHANGED <<raj, counter>>
  /\ UNCHANGED <<services, files, wrapper, tailers, msgCh, handled>>
  /\ UNCHANGED <<configs, closed, loop>>

Stop == \E queryFails, writeFails \in BOOLEAN : StopCall(queryFails, writeFails)

Unmonitor ==
  /\ Idle
  /\ \E queryFails \in BOOLEAN :
       lastOp' = Returned("Unmonitor", IF queryFails THEN "unmonitor" ELSE "none")
  /\ UNCHANGED <<marker, monitor, raj, counter>>
  /\ UNCHANGED tailVars

\* Status() that runs getStatusScript before it looks for the stopped file.
StatusOfQueryFirst(markerExists, reply) ==
  IF reply.err THEN [status |-> "failing", queried |-> TRUE]
  ELSE IF markerExists THEN [status |-> "stopped", queried |-> TRUE]
  ELSE LET stdout == TrimSpace(RenderLines(reply.states))
           statuses == Split(stdout, CRLF)
       IN  IF Len(stdout) = 0 THEN [status |-> "running", queried |-> TRUE]
           ELSE IF \E i \in 1..Len(statuses) : statuses[i] # <<"Running">>
             THEN [status |-> "failing", queried |-> TRUE]
             ELSE [status |-> "running", queried |-> TRUE]

\* Status() that splits stdout without strings.TrimSpace.
StatusOfNoTrim(markerExists, reply) ==
  IF markerExists THEN [status |-> "stopped", queried |-> FALSE]
  ELSE IF reply.err THEN [status |-> "failing", queried |-> TRUE]
  ELSE LET stdout == RenderLines(reply.states)
           statuses == Split(stdout, CRLF)
       IN  IF Len(stdout) = 0 THEN [status |-> "running", queried |-> TRUE]
           ELSE IF \E i \in 1..Len(statuses) : statuses[i] # <<"Running">>
             THEN [status |-> "failing", queried |-> TRUE]
             ELSE [status |-> "running", queried |-> TRUE]

\* Status(): the status returned and whether getStatusScript was run.
\* reply is what the manager answers (or would answer) to that query.
StatusOf(markerExists, reply) ==
  IF markerExists THEN [status |-> "stopped", queried |-> FALSE]
  ELSE IF reply.err THEN [status |-> "failing", queried |-> TRUE]
  ELSE LET stdout == TrimSpace(RenderLines(reply.states))
           statuses == Split(stdout, CRLF)
       IN  IF Len(stdout) = 0 THEN [status |-> "running", queried |-> TRUE]
           ELSE IF \E i \in 1..Len(statuses) : statuses[i] # <<"Running">>
             THEN [status |-> "failing", queried |-> TRUE]
             ELSE [status |-> "running", queried |-> TRUE]

StatusCall(reply) ==
  /\ Idle
  /\ LET r == StatusOf(marker, reply)
     IN  lastOp' = [op |-> "Status", err |-> "none", status |-> r.status,
                    queried |-> r.queried, reply |-> reply,
                    prev |-> [op |-> lastOp.op, err |-> lastOp.err]]
  /\ UNCHANGED <<marker, monitor, raj, counter>>
  /\ UNCHANGED tailVars

Status == \E reply \in StatusReplies : StatusCall(reply)

(***************************************************************************)
(* RemoveAllJobs: the monitor exits, one delete query, then the count      *)
(* query is polled until it prints 0 or MaxRetries polls printed something *)
(* else.  Each poll is one step; the manager mock answers any count.       *)
(***************************************************************************)
NoCounter == [polls |-> 0, first |-> -1, last |-> -1, byOne |-> TRUE]

\* The mock's record after it answered a poll: the number of polls, the
\* first and the last count it printed, and whether each count so far was
\* the one before less one.
Counted(c, fails, n) ==
  IF fails THEN [c EXCEPT !.polls = c.polls + 1]
  ELSE [polls |-> c.polls + 1,
        first |-> IF c.first = -1 THEN n ELSE c.first,
        last  |-> n,
        byOne |-> c.byOne /\ (c.last = -1 \/ n = c.last - 1)]

\* RemoveAllJobs() that also closes the channel of events.
RemoveAllJobsCallCloses(deleteFails) ==
  /\ Idle
  /\ monitor' = MonitorExit(monitor)
  /\ counter' = NoCounter
  /\ closed' = TRUE
  /\ IF deleteFails
       THEN /\ lastOp' = Returned("RemoveAllJobs",
                                  "Removing Windows job supervisor services")
            /\ raj' = [pc |-> "idle", i |-> 0]
            /\ UNCHANGED services
       ELSE /\ lastOp' = Returned("RemoveAllJobs", "pending")
            /\ raj' = [pc |-> "poll", i |-> 0]
            /\ services' = {}
  /\ UNCHANGED <<marker, files, wrapper, tailers, msgCh, handled, trail>>
  /\ UNCHANGED <<configs, loop>>

RemoveAllJobsCall(deleteFails) ==
  /\ Idle
  /\ monitor' = MonitorExit(monitor)
  /\ counter' = NoCounter
  /\ IF deleteFails
       THEN /\ lastOp' = Returned("RemoveAllJobs",
                                  "Removing Windows job supervisor services")
            /\ raj' = [pc |-> "idle", i |-> 0]
            /\ UNCHANGED services
       ELSE /\ lastOp' = Returned("RemoveAllJobs", "pending")
            /\ raj' = [pc |-> "poll", i |-> 0]
            /\ services' = {}
  /\ UNCHANGED <<marker, files, wrapper, tailers, msgCh, handled, trail>>
  /\ UNCHANGED <<configs, closed, loop>>

RemoveAllJobs == \E deleteFails \in BOOLEAN : RemoveAllJobsCall(deleteFails)

\* The poll loop with the budget tested before i is counted up: one poll
\* more than MaxRetries.
PollResultLate(i, fails, n) ==
  IF fails
    THEN [pc |-> "idle", i |-> i,
          err |-> "Checking if Windows job supervisor services exist"]
  ELSE IF TrimSpace(<<Itoa(n), CRLF>>) = <<"0">>
    THEN [pc |-> "idle", i |-> i, err |-> "none"]
  ELSE IF i = MaxRetries
    THEN [pc |-> "idle", i |-> i + 1,
          err |-> "removing Windows job supervisor services after attempts"]
  ELSE [pc |-> "poll", i |-> i + 1, err |-> "pending"]

\* The poll loop that takes a failed count query for services still there
\* and polls again.
PollResultRetriesError(i, fails, n) ==
  IF ~fails /\ TrimSpace(<<Itoa(n), CRLF>>) = <<"0">>
    THEN [pc |-> "idle", i |-> i, err |-> "none"]
  ELSE IF i + 1 = MaxRetries
    THEN [pc |-> "idle", i |-> i + 1,
          err |-> "removing Windows job supervisor services after attempts"]
  ELSE [pc |-> "poll", i |-> i + 1, err |-> "pending"]

\* One turn of the poll loop with i polls retried so far: where the call is
\* afterwards, and what it returns if it returns.
PollResult(i, fails, n) ==
  IF fails
    THEN [pc |-> "idle", i |-> i,
          err |-> "Checking if Windows job supervisor services exist"]
  ELSE IF TrimSpace(<<Itoa(n), CRLF>>) = <<"0">>
    THEN [pc |-> "idle", i |-> i, err |-> "none"]
  ELSE IF i + 1 = MaxRetries
    THEN [pc |-> "idle", i |-> i + 1,
          err |-> "removing Windows job supervisor services after attempts"]
  ELSE [pc |-> "poll", i |-> i + 1, err |-> "pending"]

RemoveAllJobsPollCall(fails, n) ==
  /\ raj.pc = "poll"
  /\ counter' = Counted(counter, fails, n)
  /\ LET r == PollResult(raj.i, fails, n)
     IN  /\ raj' = [pc |-> r.pc, i |-> r.i]
         /\ lastOp' = [Returned("RemoveAllJobs", r.err) EXCEPT
                         !.prev = lastOp.prev]
  /\ UNCHANGED <<marker, monitor>>
  /\ UNCHANGED tailVars

RemoveAllJobsPoll ==
  \E fails \in BOOLEAN, n \in 0..MaxCount : RemoveAllJobsPollCall(fails, n)

(***************************************************************************)
(* The event log.  Its bytes are modelled as tokens: the braces of a JSON  *)
(* object, one token per "key":value member, the line feed, and a token    *)
(* that is no JSON.  The datetime and event members of a record are left   *)
(* out: nothing in the supervisor reads them but to copy datetime.         *)
(***************************************************************************)
Procs == {"p1", "p2"}

Tok(k) == [k |-> k, s |-> "", n |-> 0]

LBrace == Tok("{")

RBrace == Tok("}")

NL == Tok("\n")

Junk == Tok("x")

NameField(p) == [k |-> "processName", s |-> p, n |-> 0]

CodeField(c) == [k |-> "exitCode", s |-> "", n |-> c]

IsJSONSpace(tok) == tok = NL

RECURSIVE TrimJSONLeft(_)
TrimJSONLeft(b) ==
  IF b # <<>> /\ IsJSONSpace(Head(b)) THEN TrimJSONLeft(Tail(b)) ELSE b

RECURSIVE TrimJSONRight(_)
TrimJSONRight(b) ==
  IF b # <<>> /\ IsJSONSpace(b[Len(b)])
    THEN TrimJSONRight(SubSeq(b, 1, Len(b) - 1))
    ELSE b

\* The last value of member key among the members, or the zero value.
RECURSIVE Member(_, _, _)
Member(members, key, zero) ==
  IF members = <<>> THEN zero
  ELSE LET last == members[Len(members)]
       IN  IF last.k = key THEN last
           ELSE Member(SubSeq(members, 1, Len(members) - 1), key, zero)

\* json.Unmarshal(b, &m) for m a windowsServiceEvent: white space around
\* the value is skipped, the value must be one object, a member that is
\* absent leaves the field at its zero value, a member given twice takes
\* its last value.
Unmarshal(b) ==
  LET v == TrimJSONRight(TrimJSONLeft(b))
      members == SubSeq(v, 2, Len(v) - 1)
      ok == /\ Len(v) >= 2
            /\ v[1] = LBrace
            /\ v[Len(v)] = RBrace
            /\ \A i \in 1..Len(members) :
                  members[i].k \in {"processName", "exitCode"}
  IN  IF ok
        THEN [err |-> FALSE,
              m |-> [ProcessName |-> Member(members, "processName", Tok("")).s,
                     ExitCode |-> Member(members, "exitCode", Tok("")).n]]
        ELSE [err |-> TRUE, m |-> [ProcessName |-> "", ExitCode |-> 0]]

\* The line the service wrapper writes for a failure of process p.
EncodeEvent(p, code) == <<LBrace, NameField(p), CodeField(code), RBrace, NL>>

\* What the wrapper appends as its n-th record, by kind: a well-formed
\* record (its exit code is n, so that the records of a log differ), a
\* malformed line, or a record cut short, with no line feed.
RecordBytes(p, kind, n) ==
  CASE kind = "good" -> EncodeEvent(p, n)
    [] kind = "bad"  -> <<LBrace, Junk, NL>>
    [] kind = "cut"  -> <<LBrace, NameField(p)>>

RecordKinds == {"good", "bad", "cut"}

NoFile == [exists |-> FALSE, data |-> <<>>]

EmptyFile == [exists |-> TRUE, data |-> <<>>]

NoEvent == [ProcessName |-> "", ExitCode |-> 0]

(***************************************************************************)
(* The service wrapper of an installed process appends to its event log,   *)
(* a record in one write or in several.                                    *)
(***************************************************************************)
RECURSIVE SumOver(_, _)
SumOver(f, S) ==
  IF S = {} THEN 0
  ELSE LET x == CHOOSE y \in S : TRUE IN f[x] + SumOver(f, S \ {x})

\* The number of records the wrappers have begun.
RecordsBegun == SumOver([p \in Procs |-> wrapper[p].n], Procs)

\* The wrapper of p appends k bytes of a record of the given kind, of a
\* new one if fewer than budget records were begun.
WrapperAppendWithin(p, kind, k, budget) ==
  /\ p \in services
  /\ files[p].exists
  /\ LET w == wrapper[p]
         fresh == w.rest = <<>>
         rest == IF fresh THEN RecordBytes(p, kind, w.n + 1) ELSE w.rest
     IN  /\ fresh => RecordsBegun < budget
         /\ ~fresh => kind = w.kind
         /\ k \in 1..Len(rest)
         /\ files' = [files EXCEPT ![p].data = @ \o SubSeq(rest, 1, k)]
         /\ wrapper' = [wrapper EXCEPT ![p] =
               [rest |-> SubSeq(rest, k + 1, Len(rest)),
                kind |-> kind,
                n |-> IF fresh THEN w.n + 1 ELSE w.n,
                kinds |-> IF fresh THEN Append(w.kinds, kind) ELSE w.kinds]]
  /\ UNCHANGED lifecycleVars
  /\ UNCHANGED <<services, tailers, msgCh, handled, trail>>
  /\ UNCHANGED <<configs, closed, loop>>

WrapperAppend(p, kind, k) == WrapperAppendWithin(p, kind, k, MaxRecords)

WrapperWrites ==
  \E p \in Procs, kind \in RecordKinds :
    \E k \in 1..Len(RecordBytes(p, kind, 0)) : WrapperAppend(p, kind, k)

\* A burst of failures: the wrapper appends well-formed records, each in
\* one write.
WrapperBurst ==
  \E p \in Procs :
    WrapperAppendWithin(p, "good", Len(RecordBytes(p, "good", 0)), MaxBurst)

(***************************************************************************)
(* The tailer goroutine of monitorJob.  A tailer is at p.Wait() ("wait"),  *)
(* at r.ReadBytes ("read") or at the channel send ("send"); off is the     *)
(* read position of its reader in the file, buf its bytes.Buffer, m the    *)
(* event it decoded and has not sent yet.                                  *)
(***************************************************************************)
NewTailer(p) ==
  [proc |-> p, pc |-> "wait", off |-> 0, buf |-> <<>>, m |-> NoEvent]

TailerIds == 1..Len(tailers)

\* p.Wait() returns.
TailerWait(t) ==
  /\ t \in TailerIds
  /\ tailers[t].pc = "wait"
  /\ WaitReturns(monitor)
  /\ tailers' = [tailers EXCEPT ![t].pc = "read"]
  /\ UNCHANGED lifecycleVars
  /\ UNCHANGED <<services, files, wrapper, msgCh, handled, trail>>
  /\ UNCHANGED <<configs, closed, loop>>

\* The index of the first line feed of b, or 0.
FirstNL(b) ==
  IF \E i \in 1..Len(b) : b[i] = NL
    THEN CHOOSE i \in 1..Len(b) : b[i] = NL /\ \A j \in 1..(i - 1) : b[j] # NL
    ELSE 0

\* r.ReadBytes('\n') at position off of a file holding data: the bytes up
\* to and with the first line feed and a nil error, or, at the end of the
\* file, the bytes that are left and io.EOF.
ReadBytes(data, off) ==
  LET avail == SubSeq(data, off + 1, Len(data))
      k == FirstNL(avail)
  IN  IF k > 0 THEN [b |-> SubSeq(avail, 1, k), eof |-> FALSE]
      ELSE [b |-> avail, eof |-> TRUE]

\* The loop without "b = append(buf.Bytes(), b...)": the line is decoded
\* without the bytes buffered before.
AfterReadNoJoin(tl, data) ==
  LET r == ReadBytes(data, tl.off)
      u == Unmarshal(r.b)
  IN  IF r.eof
        THEN [tl EXCEPT !.off = @ + Len(r.b), !.buf = @ \o r.b, !.pc = "wait"]
      ELSE IF u.err
        THEN [tl EXCEPT !.off = @ + Len(r.b), !.buf = <<>>, !.pc = "wait"]
      ELSE [tl EXCEPT !.off = @ + Len(r.b), !.buf = <<>>, !.pc = "send",
                      !.m = u.m]

\* The loop without the else: the event is sent whether or not the line
\* was decoded.
AfterReadSendsAnyway(tl, data) ==
  LET r == ReadBytes(data, tl.off)
      line == IF Len(tl.buf) # 0 THEN tl.buf \o r.b ELSE r.b
      u == Unmarshal(line)
  IN  IF r.eof
        THEN [tl EXCEPT !.off = @ + Len(r.b), !.buf = @ \o r.b, !.pc = "wait"]
      ELSE [tl EXCEPT !.off = @ + Len(r.b), !.buf = <<>>, !.pc = "send",
                      !.m = u.m]

\* One turn of the loop after p.Wait(): the tailer as it is after the read,
\* the decoding and the buffering.
AfterRead(tl, data) ==
  LET r == ReadBytes(data, tl.off)
      line == IF Len(tl.buf) # 0 THEN tl.buf \o r.b ELSE r.b
      u == Unmarshal(line)
  IN  IF r.eof
        THEN [tl EXCEPT !.off = @ + Len(r.b), !.buf = @ \o r.b, !.pc = "wait"]
      ELSE IF u.err
        THEN [tl EXCEPT !.off = @ + Len(r.b), !.buf = <<>>, !.pc = "wait"]
      ELSE [tl EXCEPT !.off = @ + Len(r.b), !.buf = <<>>, !.pc = "send",
                      !.m = u.m]

\* The history of the line after that read: a read that starts with an
\* empty buffer starts a new line.
TrailAfterRead(tr, tl, data) ==
  LET r == ReadBytes(data, tl.off)
      base == IF tl.buf = <<>> THEN NoTrail ELSE tr
  IN  [base EXCEPT !.parts = IF Len(r.b) = 0 THEN @
                             ELSE IF @ = 0 THEN 1 ELSE 2]

TailerRead(t) ==
  /\ t \in TailerIds
  /\ tailers[t].pc = "read"
  /\ tailers' = [tailers EXCEPT
                   ![t] = AfterRead(tailers[t], files[tailers[t].proc].data)]
  /\ trail' = [trail EXCEPT
                 ![t] = TrailAfterRead(@, tailers[t], files[tailers[t].proc].data)]
  /\ UNCHANGED lifecycleVars
  /\ UNCHANGED <<services, files, wrapper, msgCh, handled>>
  /\ UNCHANGED <<configs, closed, loop>>

\* A send that does not wait for room in the channel.
TailerSendNoBlock(t) ==
  /\ t \in TailerIds
  /\ tailers[t].pc = "send"
  /\ msgCh' = Append(msgCh, tailers[t].m)
  /\ tailers' = [tailers EXCEPT ![t].pc = "wait", ![t].m = NoEvent]
  /\ UNCHANGED lifecycleVars
  /\ UNCHANGED <<services, files, wrapper, handled, trail>>
  /\ UNCHANGED <<configs, closed, loop>>

\* s.msgCh <- &m: blocks while the channel is full.
TailerSend(t) ==
  /\ t \in TailerIds
  /\ tailers[t].pc = "send"
  /\ Len(msgCh) < ChanCap
  /\ msgCh' = Append(msgCh, tailers[t].m)
  /\ tailers' = [tailers EXCEPT ![t].pc = "wait", ![t].m = NoEvent]
  /\ UNCHANGED lifecycleVars
  /\ UNCHANGED <<services, files, wrapper, handled, trail>>
  /\ UNCHANGED <<configs, closed, loop>>

TailerStep(t) == TailerWait(t) \/ TailerRead(t) \/ TailerSend(t)

Tailer == \E t \in 1..MaxTailers : TailerStep(t)

(***************************************************************************)
(* MonitorJobFailures: the dispatch loop receives one event and calls the  *)
(* handler with the alert made of it.                                      *)
(***************************************************************************)
MonitAlert(m) ==
  [Action |-> "Start", Event |-> "pid failed", ID |-> m.ProcessName,
   Service |-> m.ProcessName,
   Description |-> [text |-> "exited with code", code |-> m.ExitCode]]

NoLoop == [pc |-> "range", erred |-> 0]

\* One turn of "for m := range s.msgCh": an event is received and the
\* handler is called with its alert; what the handler returns (herr: an
\* error) is not looked at.  On a closed and empty channel the range ends
\* and MonitorJobFailures returns nil.  erred is history: the number of the
\* first handler call that returned an error, or 0.
MonitorJobFailuresStep(herr) ==
  /\ loop.pc = "range"
  /\ IF msgCh # <<>>
       THEN /\ handled' = Append(handled, MonitAlert(Head(msgCh)))
            /\ msgCh' = Tail(msgCh)
            /\ loop' = [loop EXCEPT
                          !.erred = IF herr /\ @ = 0 THEN Len(handled) + 1 ELSE @]
       ELSE /\ closed
            /\ ~herr
            /\ loop' = [loop EXCEPT !.pc = "returned"]
            /\ UNCHANGED <<msgCh, handled>>
  /\ UNCHANGED lifecycleVars
  /\ UNCHANGED <<services, files, wrapper, tailers, trail, configs, closed>>

MonitorJobFailures == \E herr \in BOOLEAN : MonitorJobFailuresStep(herr)

(***************************************************************************)
(* AddJob: for each process of the job's config, in order, the steps       *)
(*   1 MkdirAll(logPath)            6 WriteFile(serviceWrapperConfigFile)  *)
(*   2 xml Encode of the descriptor 7 WriteFileString(app config)          *)
(*   3 MkdirAll(processDir)         8 CopyFile(service wrapper exe)        *)
(*   4 WriteFile(eventLogFile, {})  9 RunCommand(wrapper, "install")       *)
(*   5 monitorJob(eventLogFile)                                            *)
(* The first step that fails returns its error; nothing is undone.  Step 0 *)
(* of the first process stands for reading and parsing the config.         *)
(***************************************************************************)
Executables == {"", "run.exe"}

ArgLists == {<<>>, <<"-a", "-b">>}

\* A WindowsProcess of the job's config (its Env is left out: it reaches
\* the descriptor only).
WindowsProcess(name, exe, args) ==
  [Name |-> name, Executable |-> exe, Args |-> args]

ProcessSpecs(name) ==
  {WindowsProcess(name, e, a) : e \in Executables, a \in ArgLists}

\* The process lists of a config: none, p1, or p1 and p2.
Jobs ==
  {<<>>} \cup {<<p>> : p \in ProcessSpecs("p1")} \cup
  {<<p, q>> : p \in ProcessSpecs("p1"), q \in ProcessSpecs("p2")}

\* p.ServiceWrapperConfig(logPath)
ServiceWrapperConfig(process, logPath) ==
  [ID |-> process.Name,
   Name |-> process.Name,
   Description |-> "vcap",
   Executable |-> process.Executable,
   Arguments |-> process.Args,
   LogPath |-> logPath,
   LogMode |-> [Mode |-> "append"],
   Onfailure |-> [Action |-> "restart", Delay |-> "5 sec"]]

Elem(tag, text) == [tag |-> tag, text |-> text]

\* xml.NewEncoder(&buf).Encode(serviceConfig): the child elements of
\* <service>, in the order of the struct's fields, one <argument> for each
\* argument.  It fails for no descriptor.
XMLEncode(c) ==
  <<Elem("id", c.ID), Elem("name", c.Name),
    Elem("description", c.Description), Elem("executable", c.Executable)>> \o
  [i \in 1..Len(c.Arguments) |-> Elem("argument", c.Arguments[i])] \o
  <<Elem("logpath", c.LogPath), Elem("log", c.LogMode.Mode),
    Elem("onfailure", c.Onfailure.Action)>>

\* path.Join(LogsDir(), jobName, process.Name), for the one job name there is.
LogPath(name) == name

NoConfig == <<>>

NoFail == [k |-> 0, step |-> 0]

\* The steps that call the file system or the command runner, which may fail.
FailSteps == {1, 3, 4, 5, 6, 7, 8, 9}

FailPoints(job) ==
  {NoFail, [k |-> 1, step |-> 0]} \cup
  {[k |-> k, step |-> st] : k \in 1..Len(job), st \in FailSteps}

\* AddJob that, when a step fails, takes back what it did for the process
\* that failed.
StepDoneUndoesFailed(failAt, idx, st) ==
  \/ failAt = NoFail
  \/ idx < failAt.k

\* Step st of the idx-th process was done before AddJob returned.
StepDone(failAt, idx, st) ==
  \/ failAt = NoFail
  \/ idx < failAt.k
  \/ idx = failAt.k /\ st < failAt.step

AddJobError(failAt) ==
  CASE failAt = NoFail -> "none"
    [] failAt.step = 0 -> "config"
    [] failAt.step = 1 -> "Creating log directory for service"
    [] failAt.step = 3 -> "Creating job directory for service"
    [] failAt.step = 4 -> "Creating JSON log directory for service"
    [] failAt.step = 5 -> "Monitoring job for service"
    [] failAt.step = 6 -> "Saving service config file for service"
    [] failAt.step = 7 -> "Saving app runtime config file for service"
    [] failAt.step = 8 -> "Copying service wrapper in job directory"
    [] failAt.step = 9 -> "Creating service"

\* The tailers monitorJob spawned during the call, in order.
Spawned(job, failAt) ==
  LET n == Cardinality({idx \in 1..Len(job) : StepDone(failAt, idx, 5)})
  IN  [i \in 1..n |-> NewTailer(job[i].Name)]

AddJobCall(job, failAt) ==
  /\ Idle
  /\ Len(tailers) + Len(Spawned(job, failAt)) <= MaxTailers
  /\ files' = [p \in Procs |->
                 IF \E idx \in 1..Len(job) :
                      job[idx].Name = p /\ StepDone(failAt, idx, 4)
                   THEN EmptyFile
                   ELSE files[p]]
  /\ configs' = [p \in Procs |->
                   IF \E idx \in 1..Len(job) :
                        job[idx].Name = p /\ StepDone(failAt, idx, 6)
                     THEN LET idx == CHOOSE i \in 1..Len(job) : job[i].Name = p
                          IN  XMLEncode(ServiceWrapperConfig(job[idx], LogPath(p)))
                     ELSE configs[p]]
  /\ tailers' = tailers \o Spawned(job, failAt)
  /\ trail' = trail \o [i \in 1..Len(Spawned(job, failAt)) |-> NoTrail]
  /\ services' = services \cup
                   {job[idx].Name :
                      idx \in {i \in 1..Len(job) : StepDone(failAt, i, 9)}}
  /\ lastOp' = Returned("AddJob", AddJobError(failAt))
  /\ UNCHANGED <<marker, monitor, raj, counter, wrapper, msgCh, handled>>
  /\ UNCHANGED <<closed, loop>>

AddJob == \E job \in Jobs : \E failAt \in FailPoints(job) : AddJobCall(job, failAt)

(***************************************************************************)
(* Specifications.                                                         *)
(***************************************************************************)
NoWrapper == [rest |-> <<>>, kind |-> "good", n |-> 0, kinds |-> <<>>]

\* The supervisor as NewWindowsJobSupervisor returns it.  The monitor that
\* state.New() returns is Running or Stopped; the marker file is there or
\* not, as an earlier run of the agent left it.
Init ==
  /\ marker \in BOOLEAN
  /\ monitor \in {"Running", "Stopped"}
  /\ lastOp = NoOp
  /\ raj = [pc |-> "idle", i |-> 0]
  /\ counter = NoCounter
  /\ services = {}
  /\ files = [p \in Procs |-> NoFile]
  /\ wrapper = [p \in Procs |-> NoWrapper]
  /\ tailers = <<>>
  /\ msgCh = <<>>
  /\ handled = <<>>
  /\ trail = <<>>
  /\ configs = [p \in Procs |-> NoConfig]
  /\ closed = FALSE
  /\ loop = NoLoop

\* A process with an executable and no arguments.
PlainProcess(name) == WindowsProcess(name, "run.exe", <<>>)

PlainJobs ==
  {<<>>, <<PlainProcess("p1")>>, <<PlainProcess("p1"), PlainProcess("p2")>>}

\* The supervisor after AddJob has installed a job of one process, p1.
InitInstalled ==
  /\ marker \in BOOLEAN
  /\ monitor \in {"Running", "Stopped"}
  /\ lastOp = [NoOp EXCEPT !.op = "AddJob"]
  /\ raj = [pc |-> "idle", i |-> 0]
  /\ counter = NoCounter
  /\ services = {"p1"}
  /\ files = [p \in Procs |-> IF p = "p1" THEN EmptyFile ELSE NoFile]
  /\ wrapper = [p \in Procs |-> NoWrapper]
  /\ tailers = <<NewTailer("p1")>>
  /\ msgCh = <<>>
  /\ handled = <<>>
  /\ trail = <<NoTrail>>
  /\ configs = [p \in Procs |->
                  IF p = "p1"
                    THEN XMLEncode(ServiceWrapperConfig(PlainProcess("p1"),
                                                        LogPath("p1")))
                    ELSE NoConfig]
  /\ closed = FALSE
  /\ loop = NoLoop

Next ==
  \/ Start
  \/ Stop
  \/ Unmonitor
  \/ Status
  \/ RemoveAllJobs
  \/ RemoveAllJobsPoll
  \/ AddJob
  \/ WrapperWrites
  \/ Tailer
  \/ MonitorJobFailures

Spec == Init /\ [][Next]_vars

\* Any sequence of Start, Stop, Unmonitor and Status calls.
NextLifecycle == Start \/ Stop \/ Unmonitor \/ Status

SpecLifecycle == Init /\ [][NextLifecycle]_vars

\* RemoveAllJobs against the manager mock.
NextRemove == RemoveAllJobs \/ RemoveAllJobsPoll

SpecRemove == Init /\ [][NextRemove]_vars

\* The poll loop, once entered, takes its turns.
SpecRemoveFair == SpecRemove /\ WF_vars(RemoveAllJobsPoll)

\* The tailers of an installed job, the wrappers writing, the dispatch loop,
\* and Start and Stop pausing and resuming the monitor.
NextTailer == Start \/ Stop \/ WrapperWrites \/ Tailer \/ MonitorJobFailures

SpecTailer == InitInstalled /\ [][NextTailer]_vars

\* End to end, with a file system, an installer, a manager and a handler
\* that do not fail: jobs of plain processes are registered and started,
\* the wrappers write, the tailers and the dispatch loop run.
AddJobOK == \E job \in PlainJobs : AddJobCall(job, NoFail)

MonitorJobFailuresOK == MonitorJobFailuresStep(FALSE)

StartOK == StartCall(FALSE, FALSE)

NextSupervisor ==
  AddJobOK \/ StartOK \/ WrapperWrites \/ Tailer \/ MonitorJobFailuresOK

SpecSupervisor == Init /\ [][NextSupervisor]_vars

\* RemoveAllJobs with a manager that has deleted the services by the first
\* count poll.
RemoveAllJobsPollOnce == \E fails \in BOOLEAN : RemoveAllJobsPollCall(fails, 0)

\* A burst of failures of an installed process against the tailer and the
\* dispatch loop: the channel fills when the dispatch loop is slow.
NextChannel == WrapperBurst \/ Tailer \/ MonitorJobFailures

SpecChannel == InitInstalled /\ [][NextChannel]_vars

\* The dispatch loop while the tailers run and the jobs are removed.
NextDispatch ==
  \/ WrapperWrites
  \/ Tailer
  \/ MonitorJobFailures
  \/ RemoveAllJobs
  \/ RemoveAllJobsPollOnce

SpecDispatch == InitInstalled /\ [][NextDispatch]_vars

\* Any sequence of AddJob calls for jobs of plain processes, each failing
\* at any of its steps or at none.
AddJobPlain ==
  \E job \in PlainJobs : \E failAt \in FailPoints(job) : AddJobCall(job, failAt)

NextAddJob == AddJobPlain

SpecAddJob == Init /\ [][NextAddJob]_vars

\* AddJob calls for every process spec, with collaborators that do not fail.
AddJobAny == \E job \in Jobs : AddJobCall(job, NoFail)

NextDescriptor == AddJobAny

SpecDescriptor == Init /\ [][NextDescriptor]_vars

\* The tailers of an installed job while the monitor is paused, resumed
\* and exited.
NextExit ==
  \/ Start
  \/ Stop
  \/ RemoveAllJobs
  \/ RemoveAllJobsPollOnce
  \/ WrapperWrites
  \/ Tailer
  \/ MonitorJobFailures

SpecExit == InitInstalled /\ [][NextExit]_vars

\* The Go scheduler runs every goroutine that can run: the tailers, the
\* dispatch loop and the caller inside RemoveAllJobs take their turns.
SpecExitFair ==
  /\ SpecExit
  /\ WF_vars(Tailer)
  /\ WF_vars(MonitorJobFailures)
  /\ WF_vars(RemoveAllJobsPollOnce)

(***************************************************************************)
(* Claims.                                                                 *)
(***************************************************************************)
AllRunning(states) ==
  /\ Len(states) >= 1
  /\ \A i \in 1..Len(states) : states[i] = "Running"

\* C1: whenever Status() has just returned and the stopped marker exists,
\* it returned "stopped" and did not run the manager query, whatever the
\* manager would have answered.
C1_StoppedWhenMarker ==
  (lastOp.op = "Status" /\ marker) =>
    (lastOp.status = "stopped" /\ ~lastOp.queried)

\* Status() returned "stopped" with the marker there and a manager that
\* reports every service Running.
C1_Witness ==
  /\ lastOp.op = "Status"
  /\ marker
  /\ ~lastOp.reply.err
  /\ AllRunning(lastOp.reply.states)
  /\ Len(lastOp.reply.states) >= 2
  /\ lastOp.status = "stopped"

\* The reference aggregation over the manager's answer.
Aggregate(reply) ==
  IF reply.err THEN "failing"
  ELSE IF reply.states = <<>> THEN "running"
  ELSE IF \E i \in 1..Len(reply.states) : reply.states[i] # "Running"
    THEN "failing"
  ELSE "running"

\* C2: whenever Status() has just returned and the stopped marker is
\* absent, it ran the query and returned the reference aggregation of the
\* manager's answer: failing on a query error, running for no services,
\* failing if some state is not "Running", running if all are.
C2_AggregatesWhenNoMarker ==
  (lastOp.op = "Status" /\ ~marker) =>
    (lastOp.queried /\ lastOp.status = Aggregate(lastOp.reply))

\* Status() returned "running" for several services, all Running.
C2_Witness ==
  /\ lastOp.op = "Status"
  /\ ~marker
  /\ ~lastOp.reply.err
  /\ AllRunning(lastOp.reply.states)
  /\ Len(lastOp.reply.states) >= 2
  /\ lastOp.status = "running"

\* C3: in any sequence of Start, Stop, Unmonitor and Status calls, a Stop
\* that returns nil leaves the marker there, the marker stays until a Start
\* returns nil, a Start that returns nil leaves it absent, it stays absent
\* until the next Stop, and Status returns "stopped" exactly while the
\* marker is there ("running" or "failing" otherwise).
C3_MarkerFollowsStopStart ==
  [][ /\ (lastOp'.op = "Stop" /\ lastOp'.err = "none") => marker'
      /\ (marker /\ ~(lastOp'.op = "Start" /\ lastOp'.err = "none")) => marker'
      /\ (lastOp'.op = "Start" /\ lastOp'.err = "none") => ~marker'
      /\ (~marker /\ lastOp'.op # "Stop") => ~marker'
      /\ lastOp'.op = "Status" =>
            /\ lastOp'.status = "stopped" <=> marker'
            /\ lastOp'.status \in {"stopped", "running", "failing"}
    ]_vars

\* A Start() returned nil right after a Stop() that had returned nil: the
\* marker was there and is gone.
C3_Witness ==
  /\ lastOp.op = "Start"
  /\ lastOp.err = "none"
  /\ lastOp.prev = [op |-> "Stop", err |-> "none"]
  /\ ~marker

\* C4: a Start() or a Stop() whose manager query fails returns an error and
\* leaves the stopped marker as it was.
C4_FailedQueryKeepsMarker ==
  [][ \A f \in BOOLEAN :
        (StartCall(TRUE, f) \/ StopCall(TRUE, f)) =>
          (lastOp'.err # "none" /\ marker' = marker)
    ]_vars

\* A Stop() failed on its query, after a Start() that had returned nil: the
\* marker has not been created.
C4_Witness ==
  /\ lastOp.op = "Stop"
  /\ lastOp.err = "Stopping services"
  /\ lastOp.prev = [op |-> "Start", err |-> "none"]
  /\ ~marker

RemoveAllJobsReturned(err) ==
  lastOp.op = "RemoveAllJobs" /\ raj.pc = "idle" /\ lastOp.err = err

C5_Polls ==
  /\ counter.polls <= MaxRetries
  /\ raj.pc = "poll" => (raj.i < MaxRetries /\ counter.polls = raj.i)
  /\ RemoveAllJobsReturned("none") =>
        /\ counter.last = 0
        /\ counter.polls = raj.i + 1
        /\ counter.byOne => counter.polls = counter.first + 1
  /\ RemoveAllJobsReturned(
         "removing Windows job supervisor services after attempts") =>
        /\ counter.polls = MaxRetries
        /\ counter.last # 0

\* C5: RemoveAllJobs issues at most MaxRetries count polls; it returns nil
\* only on the poll that prints 0, which is its last (after n, n-1, .., 0
\* that is n+1 polls); if MaxRetries polls print something else it returns
\* the error; and the poll loop, once entered, is left.
C5_RemoveAllJobsTerminates ==
  /\ []C5_Polls
  /\ (raj.pc = "poll") ~> (raj.pc = "idle")

\* RemoveAllJobs returned nil after the polls 3, 2, 1, 0.
C5_Witness ==
  /\ RemoveAllJobsReturned("none")
  /\ counter.byOne
  /\ counter.first = MaxCount
  /\ counter.polls = MaxCount + 1

(***************************************************************************)
(* Claims about the tailers and the dispatch loop.                         *)
(***************************************************************************)
\* The alerts of the events published so far, in the order of their
\* sending: those the handler has had, then those still in the channel.
PublishedAlerts == handled \o [i \in 1..Len(msgCh) |-> MonitAlert(msgCh[i])]

WithID(alerts, p) == SelectSeq(alerts, LAMBDA a : a.ID = p)

\* The alert of the n-th record of p's log, a well-formed one.
GoodAlert(p, n) == MonitAlert([ProcessName |-> p, ExitCode |-> n])

\* What tailer t has sent or is about to send.
Sent(t) ==
  WithID(PublishedAlerts, tailers[t].proc) \o
    (IF tailers[t].pc = "send" THEN <<MonitAlert(tailers[t].m)>> ELSE <<>>)

\* Tailer t has read all that the wrapper wrote, the wrapper is not in the
\* middle of a record, and t has sent what it decoded.
Consumed(t) ==
  /\ wrapper[tailers[t].proc].rest = <<>>
  /\ tailers[t].off = Len(files[tailers[t].proc].data)
  /\ tailers[t].pc # "send"

\* The alerts of the records of p's log chosen by Keep(kinds, i), in order.
AlertsOfRecords(p, Keep(_, _)) ==
  LET kinds == wrapper[p].kinds
      idx == SelectSeq([i \in 1..Len(kinds) |-> i], LAMBDA i : Keep(kinds, i))
  IN  [j \in 1..Len(idx) |-> GoodAlert(p, idx[j])]

IsGood(kinds, i) == kinds[i] = "good"

\* A well-formed record that starts a line: the record before it, if any,
\* ended with its line feed.
IsGoodLine(kinds, i) == kinds[i] = "good" /\ (i = 1 \/ kinds[i - 1] # "cut")

IsPrefix(a, b) == Len(a) <= Len(b) /\ a = SubSeq(b, 1, Len(a))

\* C6: the handler is invoked only with the alert of a well-formed record
\* that was written to the log of the process the alert names, and at most
\* once for each such record (the safety half of "exactly one invocation
\* for every record written, none for a record not written").
C6_HandlerOncePerRecord ==
  \A i \in 1..Len(handled) :
    /\ handled[i].ID \in Procs
    /\ handled[i].Service = handled[i].ID
    /\ \E n \in 1..Len(wrapper[handled[i].ID].kinds) :
         /\ wrapper[handled[i].ID].kinds[n] = "good"
         /\ handled[i] = GoodAlert(handled[i].ID, n)
    /\ \A j \in 1..Len(handled) : handled[j] = handled[i] => j = i

\* C7: a tailer whose log receives one well-formed record, in any number of
\* writes, publishes nothing but that record's event, at most once, and has
\* published it once it has read the whole record.
C7_OneEventFromFragments ==
  \A t \in TailerIds :
    wrapper[tailers[t].proc].kinds = <<"good">> =>
      /\ IsPrefix(Sent(t), <<GoodAlert(tailers[t].proc, 1)>>)
      /\ Consumed(t) => Sent(t) = <<GoodAlert(tailers[t].proc, 1)>>

\* The handler has had the event of a record that the tailer read in two
\* parts or more.
C7_Witness ==
  /\ wrapper["p1"].kinds = <<"good">>
  /\ trail[1].parts = 2
  /\ tailers[1].buf = <<>>
  /\ handled = <<GoodAlert("p1", 1)>>

RECURSIVE DecodeLines(_)
DecodeLines(b) ==
  LET k == FirstNL(b)
      u == Unmarshal(SubSeq(b, 1, k))
  IN  IF k = 0 THEN <<>>
      ELSE (IF u.err THEN <<>> ELSE <<MonitAlert(u.m)>>) \o
           DecodeLines(SubSeq(b, k + 1, Len(b)))

\* The index of the last line feed among the first off bytes of b, or 0.
LastNL(b, off) ==
  IF \E i \in 1..off : b[i] = NL
    THEN CHOOSE i \in 1..off : b[i] = NL /\ \A j \in (i + 1)..off : b[j] # NL
    ELSE 0

\* C9: whatever Stop() and Start() calls come while a tailer holds bytes of
\* a partial record, the tailer keeps its read position and its buffer
\* (the buffer is the partial line that ends at the read position), and
\* what it has sent is each decodable line it has read, once.
C9_PauseKeepsPartialRecord ==
  \A t \in TailerIds :
    LET data == files[tailers[t].proc].data
        off == tailers[t].off
    IN  /\ off <= Len(data)
        /\ tailers[t].buf = SubSeq(data, LastNL(data, off) + 1, off)
        /\ Sent(t) = DecodeLines(SubSeq(data, 1, off))

\* Stop() and then Start() were called while the tailer held bytes of the
\* record; the record was completed, and the handler has had it once.
C9_Witness ==
  /\ trail[1].pause = "resumed"
  /\ tailers[1].buf = <<>>
  /\ wrapper["p1"].kinds = <<"good">>
  /\ handled = <<GoodAlert("p1", 1)>>

\* C10: the handler has the events of each process in the order of their
\* records in that process's log (the n-th record has exit code n).
C10_OrderPerProcess ==
  \A i, j \in 1..Len(handled) :
    (i < j /\ handled[i].ID = handled[j].ID) =>
      handled[i].Description.code <= handled[j].Description.code

(***************************************************************************)
(* Claims about the exit of the monitor and the gate.                      *)
(***************************************************************************)
\* C11: once RemoveAllJobs() has put the monitor in Exited, every tailer
\* eventually terminates; a tailer that has terminated is never again at
\* its read, so from some point on no tailer is at its read.
C11_TailersTerminate ==
  [](monitor = "Exited" =>
       <>[](\A t \in TailerIds : tailers[t].pc # "read"))

\* C12: Exited is terminal: once the monitor is Exited no step takes it
\* back to Running or Stopped and no tailer passes its gate to read again;
\* before that, Start() leaves it Running and Stop() leaves it Stopped.
C12_ExitedIsTerminal ==
  [][/\ monitor = "Exited" =>
          /\ monitor' = "Exited"
          /\ \A t \in TailerIds :
               tailers[t].pc = "wait" => tailers'[t].pc = "wait"
     /\ (monitor # "Exited" /\ Start) => monitor' = "Running"
     /\ (monitor # "Exited" /\ Stop) => monitor' = "Stopped"]_vars

\* C15: while the monitor is Stopped no tailer reads from its log (a
\* tailer at its read does not move) and no event is put on the channel.
C15_NoReadWhileStopped ==
  [][(monitor = "Stopped" /\ monitor' = "Stopped") =>
       /\ \A t \in TailerIds :
            tailers[t].pc = "read" => tailers'[t] = tailers[t]
       /\ Len(msgCh') <= Len(msgCh)]_vars

\* C17: the channel never holds more than ChanCap events; while it is
\* full a tailer that has an event to send stays at its send; and what a
\* tailer has sent or is about to send is each record it has read, once,
\* in order.
C17_ChannelBounded ==
  /\ [](Len(msgCh) <= ChanCap)
  /\ [](\A t \in TailerIds :
          LET p == tailers[t].proc
              size == Len(EncodeEvent(p, 0))
          IN  Sent(t) = [n \in 1..(tailers[t].off \div size) |-> GoodAlert(p, n)])
  /\ [][\A t \in TailerIds :
          (tailers[t].pc = "send" /\ Len(msgCh) = ChanCap) =>
            tailers'[t] = tailers[t]]_vars

\* The channel is full and the tailer is at its send with the ninth event.
C17_Witness ==
  /\ Len(msgCh) = ChanCap
  /\ tailers[1].pc = "send"
  /\ tailers[1].m = [ProcessName |-> "p1", ExitCode |-> ChanCap + 1]
  /\ handled = <<>>

(***************************************************************************)
(* Claims about AddJob.                                                    *)
(***************************************************************************)
\* The names of the first n processes of job.
Names(job, n) == {job[i].Name : i \in 1..n}

\* C13: an AddJob call that fails at a step of its k-th process returns an
\* error, leaves the services of processes 1..k-1 installed with their
\* event logs, descriptors and tailers, leaves what it had created for
\* process k (the event log after step 4, the tailer after step 5, the
\* descriptor after step 6), and touches nothing of the processes after k.
C13_AddJobAbortsKeepsDone ==
  [][\A job \in PlainJobs : \A failAt \in FailPoints(job) \ {NoFail} :
       (lastOp'.err = AddJobError(failAt) /\ AddJobCall(job, failAt)) =>
         LET k == failAt.k
             before == Names(job, k - 1)
             Reached(p, st) ==
               p \in before \/ (failAt.step > st /\ p = job[k].Name)
         IN  /\ lastOp'.op = "AddJob"
             /\ lastOp'.err # "none"
             /\ services' = services \cup before
             /\ \A p \in Procs :
                  /\ files'[p] = IF Reached(p, 4) THEN EmptyFile ELSE files[p]
                  /\ IF Reached(p, 6) THEN configs'[p] # NoConfig
                                      ELSE configs'[p] = configs[p]
             /\ tailers' =
                  tailers \o
                    [i \in 1..(IF failAt.step > 5 THEN k ELSE k - 1) |->
                       NewTailer(job[i].Name)]]_vars

\* AddJob for p1 and p2 failed at the install verb of p2: p1 is installed,
\* p2 is not, and p2's event log, descriptor and tailer are there.
C13_Witness ==
  /\ lastOp.op = "AddJob"
  /\ lastOp.err = "Creating service"
  /\ services = {"p1"}
  /\ files["p2"].exists
  /\ configs["p2"] # NoConfig
  /\ Len(tailers) = 2
  /\ tailers[2].proc = "p2"

\* The texts of the elements of xml named tag, in their order.
ElemTexts(xml, tag) ==
  LET sel == SelectSeq(xml, LAMBDA e : e.tag = tag)
  IN  [i \in 1..Len(sel) |-> sel[i].text]

\* C14: with collaborators that do not fail, AddJob for a job with a
\* process whose executable is empty returns an error and does not install
\* that process; and the descriptor saved for a process with an executable
\* carries that executable and its arguments, in their order.
C14_EmptyExecutableRejected ==
  [][\A job \in Jobs :
       AddJobCall(job, NoFail) =>
         \A i \in 1..Len(job) :
           IF job[i].Executable = ""
             THEN /\ lastOp'.err # "none"
                  /\ job[i].Name \in services' => job[i].Name \in services
             ELSE (\A j \in 1..(i - 1) : job[j].Executable # "") =>
                    /\ ElemTexts(configs'[job[i].Name], "executable") =
                         <<job[i].Executable>>
                    /\ ElemTexts(configs'[job[i].Name], "argument") =
                         job[i].Args]_vars

\* C16: no two tailers read the event log of the same process.
C16_OneTailerPerLog ==
  \A t1, t2 \in TailerIds :
    tailers[t1].proc = tailers[t2].proc => t1 = t2

(***************************************************************************)
(* Claims about the errors of RemoveAllJobs and about the dispatch loop.   *)
(***************************************************************************)
\* C18: a RemoveAllJobs() whose delete query fails returns that error
\* without a count poll; a count poll that fails ends the call with its
\* error; a count poll that succeeds with a count other than 0 is followed
\* by another poll while the budget lasts; and once the call has returned
\* no poll is made until RemoveAllJobs() is called again.
C18_ErrorsReturnedAtOnce ==
  [][/\ RemoveAllJobsCall(TRUE) =>
          /\ raj'.pc = "idle"
          /\ counter'.polls = 0
          /\ lastOp'.err = "Removing Windows job supervisor services"
     /\ \A n \in 0..MaxCount :
          RemoveAllJobsPollCall(TRUE, n) =>
            /\ raj'.pc = "idle"
            /\ lastOp'.err = "Checking if Windows job supervisor services exist"
     /\ \A n \in 1..MaxCount :
          (RemoveAllJobsPollCall(FALSE, n) /\ raj.i + 1 < MaxRetries) =>
            /\ raj'.pc = "poll"
            /\ counter'.polls = counter.polls + 1
     /\ raj.pc = "idle" => counter'.polls \in {0, counter.polls}]_vars

\* Two polls reported services left, the third failed: the call returned
\* the error of the count query after three polls.
C18_Witness ==
  /\ lastOp.op = "RemoveAllJobs"
  /\ lastOp.err = "Checking if Windows job supervisor services exist"
  /\ raj = [pc |-> "idle", i |-> 2]
  /\ counter.polls = 3

\* C19: MonitorJobFailures does not return, RemoveAllJobs() or not, and
\* whatever the handler returned; each turn of its loop takes the event at
\* the head of the channel and calls the handler once, with that event's
\* alert.
C19_DispatchNeverReturns ==
  /\ [](loop.pc = "range")
  /\ [][loop' # loop \/ handled' # handled =>
          /\ msgCh # <<>>
          /\ msgCh' = Tail(msgCh)
          /\ handled' = Append(handled, MonitAlert(Head(msgCh)))]_vars

\* RemoveAllJobs() has returned nil and the channel is drained; the handler
\* returned an error on its first call and was called again for the second
\* event; the loop is still at its range.
C19_Witness ==
  /\ lastOp.op = "RemoveAllJobs"
  /\ lastOp.err = "none"
  /\ monitor = "Exited"
  /\ msgCh = <<>>
  /\ loop.erred = 1
  /\ Len(handled) = 2
  /\ loop.pc = "range"

(***************************************************************************)
(* Claims about the order of effects in Start and Stop.                    *)
(***************************************************************************)
\* C20: every Start() leaves the monitor Running and every Stop() leaves it
\* Stopped, failed or not; a Start() or Stop() that fails leaves the marker
\* as it was; Unmonitor() and Status() change neither monitor nor marker.
C20_MonitorSetEvenOnFailure ==
  [][/\ Start => monitor' = "Running"
     /\ Stop => monitor' = "Stopped"
     /\ (Start \/ Stop) /\ lastOp'.err # "none" => marker' = marker
     /\ lastOp'.op \in {"Unmonitor", "Status"} =>
          (monitor' = monitor /\ marker' = marker)]_vars

\* Start() has failed after a Stop() that succeeded: the monitor is Running
\* and the stopped marker is still there.
C20_Witness ==
  /\ lastOp.op = "Start"
  /\ lastOp.err # "none"
  /\ lastOp.prev = [op |-> "Stop", err |-> "none"]
  /\ monitor = "Running"
  /\ marker

====
